---- MODULE Spec2Model ----
(***************************************************************************)
(* damavand: the sliding-window splitter (utils.splitter), the feature     *)
(* extractor (feature_extraction.feature_extractor, catch_features) and    *)
(* the z-score scaler (utils.z_score_scaler), modelled as one call chain:  *)
(* a caller splits an array and hands the returned window table to one of  *)
(* the three consumers.  PU.mine (datasets.digestors), the miner that      *)
(* records corrupted files, has a specification of its own, MineSpec.      *)
(*                                                                         *)
(* Library behaviour the code relies on (pandas 2.x, numpy >= 1.24):       *)
(*   - pd.DataFrame(list of rows) pads short rows with NaN up to the       *)
(*     longest row; np.array(list of rows) raises ValueError when the rows *)
(*     differ in length; np.array([]) is 1-dimensional;                    *)
(*   - DataFrame.apply(f, axis=1) on a frame with no rows or no columns    *)
(*     returns a copy of the frame; otherwise it calls f row by row and    *)
(*     lets an exception of f escape;                                      *)
(*   - DataFrame.std uses ddof = 1 (NaN for a single value), ndarray.std   *)
(*     uses ddof = 0; Series.replace(0, eps) leaves NaN alone.             *)
(***************************************************************************)
EXTENDS Integers, Sequences, FiniteSets, TLC

\* ---------------------------------------------------------------- bounds
\* longest input array
MaxN == 3
\* largest hop_len tried
MaxHop == 2
\* win_len and hop_len go down to -MaxNeg
MaxNeg == 1
\* most feature specs in one registry
MaxFeat == 2
\* most files in the folders PU.mine lists
MaxFiles == 3
\* shortest output of the plugin; a deviating row returns one element more
MinPluginLen == 2

\* largest win_len tried: one more than the longest array, so win_len > N occurs
MaxWin == MaxN + 1
\* sample values
Vals == {-1, 0, 1}
\* the array whose windows (win_len = 2, hop_len = 2) are the table
\* [[1, 2], [3, 4]]
ScenarioArray == <<1, 2, 3, 4>>

Arrays == UNION {[1..n -> Vals] : n \in 1..MaxN} \cup {ScenarioArray}

\* length of the longest array
MaxArrayLen == IF MaxN >= Len(ScenarioArray) THEN MaxN ELSE Len(ScenarioArray)
\* iterations after which a loop that has not exited is cut off; a loop with
\* hop_len >= 1 runs at most MaxArrayLen + MaxNeg + 1 times
MaxIter == MaxArrayLen + MaxNeg + 2

\* ------------------------------------------------------------ arithmetic
Max(a, b) == IF a >= b THEN a ELSE b
Min(a, b) == IF a <= b THEN a ELSE b

\* floor division, as Python's // on integers with d > 0
FloorDiv(a, d) == IF a >= 0 THEN a \div d ELSE 0 - ((0 - a + d - 1) \div d)

RECURSIVE SumSeq(_)
SumSeq(s) == IF s = <<>> THEN 0 ELSE Head(s) + SumSeq(Tail(s))

RECURSIVE MaxLenOf(_)
MaxLenOf(rows) == IF rows = <<>> THEN 0 ELSE Max(Len(Head(rows)), MaxLenOf(Tail(rows)))

\* ------------------------------------------------------- python slicing
\* a slice bound as Python clamps it: a negative bound counts from the end
ClampIdx(i, n) == IF i < 0 THEN Max(i + n, 0) ELSE Min(i, n)

\* array[a:b]
PySlice(arr, a, b) ==
    LET lo == ClampIdx(a, Len(arr))
        hi == ClampIdx(b, Len(arr))
    IN  IF lo < hi THEN SubSeq(arr, lo + 1, hi) ELSE <<>>

\* ---------------------------------------------------------------- tables
\* A table is [kind, rows, ncols, columns]: kind "df" (pd.DataFrame), "nd"
\* (np.ndarray), "list" (any other type) or "none" (no value); a cell (r, c)
\* with c > Len(rows[r]) is missing (NaN).
NoTable == [kind |-> "none", rows |-> <<>>, ncols |-> 0, columns |-> <<>>]

IsRagged(rows) == \E r \in 1..Len(rows) : Len(rows[r]) # MaxLenOf(rows)

\* pd.DataFrame(rows): default integer column labels
DataFrameOf(rows) ==
    [kind |-> "df", rows |-> rows, ncols |-> MaxLenOf(rows),
     columns |-> [c \in 1..MaxLenOf(rows) |-> c - 1]]

\* np.array(rows), rows of equal length
NdArrayOf(rows) ==
    [kind |-> "nd", rows |-> rows, ncols |-> MaxLenOf(rows), columns |-> <<>>]

\* number of dimensions of an ndarray built by np.array(rows)
NDim(t) == IF t.rows = <<>> THEN 1 ELSE 2

HasMissing(t) == IsRagged(t.rows)

VARIABLES
    array,      \* splitter's argument: the 1-D array
    win_len,    \* splitter's argument
    hop_len,    \* splitter's argument
    return_df,  \* splitter's argument
    m,          \* splitter: the loop's offset
    ids,        \* splitter: the [start, stop] pairs collected so far
    pc,         \* "loop", "returned" (splitter returned), "raised", "cutoff", "called"
    table,      \* what splitter returned
    call,       \* the consumer call made on the table: its name and arguments
    out,        \* that call's outcome: [status, err, value]
    mine        \* PU.mine: the miner's fields and the position of its file loop

vars == <<array, win_len, hop_len, return_df, m, ids, pc, table, call, out, mine>>

\* PU.mine is not running
NotMining == [pc |-> "idle", channels |-> {}, files |-> <<>>, i |-> 0,
              data |-> <<>>, corrupted_files |-> {}]

NoCall == [op |-> "none", features |-> <<>>, lens |-> <<>>, additionals |-> FALSE,
           signals |-> "none", axis |-> 0, return_df |-> FALSE]
NoOut == [status |-> "none", err |-> "none", value |-> NoTable]

Init ==
    /\ array \in Arrays
    /\ win_len \in (0 - MaxNeg)..MaxWin
    /\ hop_len \in (0 - MaxNeg)..MaxHop
    /\ return_df \in BOOLEAN
    /\ m = 0
    /\ ids = <<>>
    /\ pc = "loop"
    /\ table = NoTable
    /\ call = NoCall
    /\ out = NoOut
    /\ mine = NotMining

\* -------------------------------------------------------------- splitter
N == Len(array)

\* the while condition with < for <=
LoopCond_Strict == m + win_len < N

\* the while condition
LoopCond == m + win_len <= N

\* the loop body that leaves the offset where it is
SplitterLoop_NoAdvance ==
    /\ pc = "loop"
    /\ LoopCond
    /\ Len(ids) < MaxIter
    /\ ids' = Append(ids, <<m, m + win_len>>)
    /\ m' = m
    /\ UNCHANGED <<mine, array, win_len, hop_len, return_df, pc, table, call, out>>

\* one iteration of the while loop
SplitterLoop ==
    /\ pc = "loop"
    /\ LoopCond
    /\ Len(ids) < MaxIter
    /\ ids' = Append(ids, <<m, m + win_len>>)
    /\ m' = m + hop_len
    /\ UNCHANGED <<mine, array, win_len, hop_len, return_df, pc, table, call, out>>

\* the loop has run MaxIter times and its condition still holds
SplitterCutoff ==
    /\ pc = "loop"
    /\ LoopCond
    /\ Len(ids) >= MaxIter
    /\ pc' = "cutoff"
    /\ UNCHANGED <<mine, array, win_len, hop_len, return_df, m, ids, table, call, out>>

\* [array[i[0]: i[1]] for i in ids]
Windows(arr, idl) == [i \in 1..Len(idl) |-> PySlice(arr, idl[i][1], idl[i][2])]

\* the loop exits and the table is built
SplitterReturn ==
    /\ pc = "loop"
    /\ ~LoopCond
    /\ LET rows == Windows(array, ids)
       IN  IF return_df
           THEN /\ table' = DataFrameOf(rows)
                /\ pc' = "returned"
           ELSE IF IsRagged(rows)
                THEN /\ table' = NoTable
                     /\ pc' = "raised"
                ELSE /\ table' = NdArrayOf(rows)
                     /\ pc' = "returned"
    /\ UNCHANGED <<mine, array, win_len, hop_len, return_df, m, ids, call, out>>

\* ------------------------------------------------------ feature registry
\* A feature spec is a key of the features dict with its (function, args):
\* the module's own scalar functions, a numpy reduction taking an argument,
\* and two caller-supplied functions: one that raises on some rows and one
\* that returns a list (the plugin's values).
FeatureSpecs ==
    { [key |-> "rms",  func |-> "rms",            args |-> <<>>],
      [key |-> "cf",   func |-> "crest_factor",   args |-> <<>>],
      [key |-> "p50",  func |-> "np.percentile",  args |-> <<50>>],
      [key |-> "inv",  func |-> "floordiv_first", args |-> <<1>>],
      [key |-> "c22",  func |-> "catch22_values", args |-> <<>>] }

\* the functions whose result is a list, not a number
VectorFuncs == {"catch22_values"}

\* features dicts: insertion-ordered, keys distinct
FeatureDicts ==
    UNION { {f \in [1..k -> FeatureSpecs] :
                \A i, j \in 1..k : i # j => f[i].key # f[j].key} : k \in 0..MaxFeat }

\* func(row, *args) raises: floordiv_first is args[0] // int(row.iloc[0])
Raises(fs, row) == fs.func = "floordiv_first" /\ row[1] = 0

ErrorOf(fs) == IF fs.func = "floordiv_first" THEN "ZeroDivisionError" ELSE "none"

\* apply_feature(row, func_tuple): the value func(row, *args, **kwargs), kept
\* symbolic; a function is pure, so the value is fixed by (func, args, row)
ApplyFeature(row, fs) ==
    [kind |-> IF fs.func \in VectorFuncs THEN "vector" ELSE "scalar",
     func |-> fs.func, args |-> fs.args, row |-> row]

Keys(features) == [k \in 1..Len(features) |-> features[k].key]

Returned(t) == [status |-> "returned", err |-> "none", value |-> t]
Raised(e) == [status |-> "raised", err |-> e, value |-> NoTable]

\* the rows (in order) on which some feature function raises
FailingRows(signals, features) ==
    {r \in 1..Len(signals.rows) :
        \E k \in 1..Len(features) : Raises(features[k], signals.rows[r])}

\* the error of the first call that raises, rows in table order, features in
\* dict order within a row
FirstError(signals, features) ==
    LET r == CHOOSE x \in FailingRows(signals, features) :
                 \A y \in FailingRows(signals, features) : x <= y
        k == CHOOSE x \in 1..Len(features) :
                 /\ Raises(features[x], signals.rows[r])
                 /\ \A y \in 1..(x - 1) : ~Raises(features[y], signals.rows[r])
    IN  ErrorOf(features[k])

\* signals.apply(...) that leaves out the rows on which a function raises
DataFrameApply_SkipRows(signals, features) ==
    IF signals.rows = <<>> \/ signals.ncols = 0
    THEN Returned(signals)
    ELSE LET RECURSIVE Keep(_)
             Keep(r) ==
                 IF r > Len(signals.rows) THEN <<>>
                 ELSE IF r \in FailingRows(signals, features) THEN Keep(r + 1)
                 ELSE <<[k \in 1..Len(features) |->
                            ApplyFeature(signals.rows[r], features[k])]>> \o Keep(r + 1)
         IN  Returned([kind |-> "df", rows |-> Keep(1), ncols |-> Len(features),
                       columns |-> [k \in 1..Len(features) |-> k - 1]])

\* signals.apply(...) that lists a row's values in reverse dict order
DataFrameApply_Reversed(signals, features) ==
    IF signals.rows = <<>> \/ signals.ncols = 0
    THEN Returned(signals)
    ELSE IF FailingRows(signals, features) # {}
    THEN Raised(FirstError(signals, features))
    ELSE Returned(
           [kind |-> "df",
            rows |-> [r \in 1..Len(signals.rows) |->
                        [k \in 1..Len(features) |->
                            ApplyFeature(signals.rows[r],
                                         features[Len(features) + 1 - k])]],
            ncols |-> Len(features),
            columns |-> [k \in 1..Len(features) |-> k - 1]])

\* signals.apply(...) that spreads a list result over one cell per element
DataFrameApply_Expanding(signals, features) ==
    IF signals.rows = <<>> \/ signals.ncols = 0
    THEN Returned(signals)
    ELSE IF FailingRows(signals, features) # {}
    THEN Raised(FirstError(signals, features))
    ELSE LET RECURSIVE Cells(_, _)
             Cells(r, k) ==
                 IF k > Len(features) THEN <<>>
                 ELSE (IF features[k].func \in VectorFuncs
                       THEN [j \in 1..MinPluginLen |->
                                ApplyFeature(signals.rows[r], features[k])]
                       ELSE <<ApplyFeature(signals.rows[r], features[k])>>)
                      \o Cells(r, k + 1)
         IN  Returned(
               [kind |-> "df",
                rows |-> [r \in 1..Len(signals.rows) |-> Cells(r, 1)],
                ncols |-> Len(Cells(1, 1)),
                columns |-> [k \in 1..Len(Cells(1, 1)) |-> k - 1]])

\* signals.apply(lambda row: pd.Series([apply_feature(row, f) for f in
\* features.values()]), axis=1): a frame without rows or without columns comes
\* back as a copy; otherwise one output row per input row, one cell per
\* feature (whatever the value's type), and an exception escapes
DataFrameApply(signals, features) ==
    IF signals.rows = <<>> \/ signals.ncols = 0
    THEN Returned(signals)
    ELSE IF FailingRows(signals, features) # {}
    THEN Raised(FirstError(signals, features))
    ELSE Returned(
           [kind |-> "df",
            rows |-> [r \in 1..Len(signals.rows) |->
                        [k \in 1..Len(features) |->
                            ApplyFeature(signals.rows[r], features[k])]],
            ncols |-> Len(features),
            columns |-> [k \in 1..Len(features) |-> k - 1]])

\* feature_values.columns = features.keys(): a length mismatch raises
SetColumns(t, keys) ==
    IF Len(keys) # t.ncols
    THEN Raised("ValueError")
    ELSE Returned([t EXCEPT !.columns = keys])

\* feature_extractor(signals, features)
FeatureExtractorResult(signals, features) ==
    IF signals.kind # "df"
    THEN Raised("AttributeError")
    ELSE LET applied == DataFrameApply(signals, features)
         IN  IF applied.status = "raised"
             THEN applied
             ELSE SetColumns(applied.value, Keys(features))

\* the caller hands the window table to feature_extractor
FeatureExtractor ==
    /\ pc = "returned"
    /\ ~HasMissing(table)
    /\ \E features \in FeatureDicts :
          /\ call' = [NoCall EXCEPT !.op = "feature_extractor",
                                    !.features = features]
          /\ out' = FeatureExtractorResult(table, features)
    /\ pc' = "called"
    /\ UNCHANGED <<mine, array, win_len, hop_len, return_df, m, ids, table>>

\* -------------------------------------------------------- catch_features
\* pycatch22.catch22_all is an external library: what it returns for a row is
\* the environment's choice.  Its output for row r has lens[r] names and
\* lens[r] values; the library's real length is fixed (22), a length that
\* changes from row to row is the contract violation of spec section 4.2.
PluginLens == {MinPluginLen, MinPluginLen + 1}

PluginNames(len) == [j \in 1..len |-> "c" \o ToString(j)]

\* the value of statistic `name` on row r, kept symbolic
Stat(name, r) == [stat |-> name, row |-> r]

Additionals == <<"DN_Mean", "DN_Spread_Std">>

\* results['names'] after the optional extend
ResultNames(len, include_additionals) ==
    PluginNames(len) \o (IF include_additionals THEN Additionals ELSE <<>>)

\* results['values'] after the optional extend
ResultValues(len, include_additionals, r) ==
    [j \in 1..Len(ResultNames(len, include_additionals)) |->
        Stat(ResultNames(len, include_additionals)[j], r)]

\* pd.DataFrame(rows, columns=names): the frame is as wide as the longest row,
\* shorter rows are padded with NaN, and names of another length raise
DataFrameWithColumns(rows, names) ==
    IF Len(names) # MaxLenOf(rows)
    THEN Raised("ValueError")
    ELSE Returned([kind |-> "df", rows |-> rows, ncols |-> MaxLenOf(rows),
                   columns |-> names])

\* catch_features(df, include_additionals): df.iterrows() needs a DataFrame;
\* after the loop `results` is the last row's, and unbound without rows
CatchFeaturesResult(df, lens, include_additionals) ==
    IF df.kind # "df"
    THEN Raised("AttributeError")
    ELSE IF df.rows = <<>>
    THEN Raised("UnboundLocalError")
    ELSE LET feature_values ==
                 [r \in 1..Len(df.rows) |->
                     ResultValues(lens[r], include_additionals, r)]
             names == ResultNames(lens[Len(df.rows)], include_additionals)
         IN  DataFrameWithColumns(feature_values, names)

\* the caller hands the window table to catch_features
CatchFeatures ==
    /\ pc = "returned"
    /\ ~HasMissing(table)
    /\ \E lens \in [1..Len(table.rows) -> PluginLens], additionals \in BOOLEAN :
          /\ call' = [NoCall EXCEPT !.op = "catch_features", !.lens = lens,
                                    !.additionals = additionals]
          /\ out' = CatchFeaturesResult(table, lens, additionals)
    /\ pc' = "called"
    /\ UNCHANGED <<mine, array, win_len, hop_len, return_df, m, ids, table>>

\* -------------------------------------------------------- z_score_scaler
\* Arithmetic is exact: a cell of the scaled table is kept as the integers it
\* is computed from.  For a line xs (a row for axis=1, a column for axis=0)
\* of n values, n*mean = sum(xs) and n*sum((x - mean)^2) = n*sum(x^2) -
\* sum(xs)^2, so std^2 = ssd / (n * (n - ddof)) with ssd the latter.
Squares(xs) == [i \in 1..Len(xs) |-> xs[i] * xs[i]]

\* n * sum((x - mean)^2)
ScaledSsd(xs) == Len(xs) * SumSeq(Squares(xs)) - SumSeq(xs) * SumSeq(xs)

\* the values a cell (r, c) is normalized with
Line(t, axis, r, c) ==
    IF axis = 1 THEN t.rows[r] ELSE [i \in 1..Len(t.rows) |-> t.rows[i][c]]

\* std(axis=axis) of a line: "nan" when n - ddof = 0 (0/0), else zero or not
StdOf(xs, ddof) ==
    IF Len(xs) - ddof <= 0 THEN "nan"
    ELSE IF ScaledSsd(xs) = 0 THEN "zero" ELSE "pos"

\* std.replace(0, eps) and np.where(std == 0, eps, std): a zero becomes eps,
\* NaN stays NaN (NaN == 0 is false)
Divisor(std) ==
    IF std = "zero" THEN "eps" ELSE IF std = "nan" THEN "nan" ELSE "std"

\* the scaled cell (x - mean) / divisor: dev = n*(x - mean)
ScaledCell(t, axis, ddof, r, c) ==
    LET xs == Line(t, axis, r, c)
    IN  [dev |-> Len(xs) * t.rows[r][c] - SumSeq(xs), n |-> Len(xs),
         ssd |-> ScaledSsd(xs), ddof |-> ddof, div |-> Divisor(StdOf(xs, ddof))]

ScaledRows(t, axis, ddof) ==
    [r \in 1..Len(t.rows) |->
        [c \in 1..Len(t.rows[r]) |-> ScaledCell(t, axis, ddof, r, c)]]

\* the DataFrame branch returning the frame whatever return_df says
ScaleFrame_IgnoresReturnDf(signals, axis, ret_df) ==
    Returned([signals EXCEPT !.rows = ScaledRows(signals, axis, 1)])

\* the DataFrame branch (pandas std: ddof = 1): scaled, or scaled.to_numpy()
ScaleFrame(signals, axis, ret_df) ==
    LET scaled == [signals EXCEPT !.rows = ScaledRows(signals, axis, 1)]
    IN  IF ret_df
        THEN Returned(scaled)
        ELSE Returned([scaled EXCEPT !.kind = "nd", !.columns = <<>>])

\* the ndarray branch (numpy std: ddof = 0); mean(axis=1) of a 1-dimensional
\* array raises numpy's AxisError
ScaleArray(signals, axis) ==
    IF axis >= NDim(signals)
    THEN Raised("AxisError")
    ELSE Returned([signals EXCEPT !.rows = ScaledRows(signals, axis, 0)])

\* z_score_scaler with the type dispatch ahead of the axis check
ZScoreResult_TypeFirst(signals, axis, ret_df) ==
    IF signals.kind \notin {"df", "nd"}
    THEN Raised("TypeError")
    ELSE IF axis \notin {0, 1}
    THEN Raised("ValueError")
    ELSE IF signals.kind = "df"
    THEN ScaleFrame(signals, axis, ret_df)
    ELSE ScaleArray(signals, axis)

\* z_score_scaler(signals, axis, return_df, eps)
ZScoreResult(signals, axis, ret_df) ==
    IF axis \notin {0, 1}
    THEN Raised("ValueError")
    ELSE IF signals.kind = "df"
    THEN ScaleFrame(signals, axis, ret_df)
    ELSE IF signals.kind = "nd"
    THEN ScaleArray(signals, axis)
    ELSE Raised("TypeError")

\* axis values a caller passes
Axes == {-1, 0, 1, 2}

\* the caller hands the window table, or a plain list of its rows, to
\* z_score_scaler
ZScoreScaler ==
    /\ pc = "returned"
    /\ ~HasMissing(table)
    /\ \E as_list \in BOOLEAN, axis \in Axes, ret_df \in BOOLEAN :
          LET signals == IF as_list THEN [table EXCEPT !.kind = "list"] ELSE table
          IN  /\ call' = [NoCall EXCEPT !.op = "z_score_scaler",
                                        !.signals = signals.kind,
                                        !.axis = axis, !.return_df = ret_df]
              /\ out' = ZScoreResult(signals, axis, ret_df)
    /\ pc' = "called"
    /\ UNCHANGED <<mine, array, win_len, hop_len, return_df, m, ids, table>>

\* --------------------------------------------- canonical feature formulas
\* Exact arithmetic on integer samples: a square root is kept as its square.
AbsVal(x) == IF x < 0 THEN 0 - x ELSE x

\* the largest sample, sign kept
peak_Signed(arr) ==
    CHOOSE x \in {arr[i] : i \in 1..Len(arr)} :
        \A i \in 1..Len(arr) : arr[i] <= x

\* peak(arr) = np.max(np.abs(arr))
peak(arr) ==
    CHOOSE x \in {AbsVal(arr[i]) : i \in 1..Len(arr)} :
        \A i \in 1..Len(arr) : AbsVal(arr[i]) <= x

\* rms(arr)^2 = np.mean(np.square(arr)), as the fraction num / den
rms_sq(arr) == [num |-> SumSeq(Squares(arr)), den |-> Len(arr)]

\* crest_factor(arr) = peak(arr) / rms(arr), as its two operands; the
\* quotient is NaN (0/0) when every sample is zero
crest_factor(arr) == [peak |-> peak(arr), rms_sq |-> rms_sq(arr)]

\* peak / rms > 1, that is rms > 0 and peak^2 * den > num
CrestAboveOne(cf) ==
    /\ cf.rms_sq.num > 0
    /\ cf.peak * cf.peak * cf.rms_sq.den > cf.rms_sq.num

\* peak / rms >= 1
CrestAtLeastOne(cf) ==
    /\ cf.rms_sq.num > 0
    /\ cf.peak * cf.peak * cf.rms_sq.den >= cf.rms_sq.num

\* ---------------------------------------------------------------- PU.mine
\* A file of the listing that passes the name filters is described by the
\* step of the try block that raises on it: "none", "loadmat" (sio.loadmat),
\* or the channel whose signal cannot be read or split.  A table is kept as
\* the index of the file it was split from.
ChannelOrder == <<"CP1", "CP2", "Vib">>

FileKinds == {"none", "loadmat", "CP1", "CP2", "Vib"}

\* the chain of the splitter and its consumers is not running
ChainIdle ==
    /\ array = <<>>
    /\ win_len = 0
    /\ hop_len = 0
    /\ return_df = TRUE
    /\ m = 0
    /\ ids = <<>>
    /\ pc = "idle"
    /\ table = NoTable
    /\ call = NoCall
    /\ out = NoOut

\* PU(...) constructed (self.data = {key: [] for key in self.channels}) and
\* mine entered (self.corrupted_files = {})
MineInit ==
    /\ ChainIdle
    /\ \E channels \in SUBSET {"CP1", "CP2", "Vib"} :
       \E k \in 0..MaxFiles :
       \E files \in [1..k -> FileKinds] :
          mine = [pc |-> "files", channels |-> channels, files |-> files, i |-> 1,
                  data |-> [c \in channels |-> <<>>], corrupted_files |-> {}]

\* the selected channels, in the order of the three if-blocks, up to and
\* without the one on which the file raises
RECURSIVE ChannelsDone(_, _, _)
ChannelsDone(k, channels, kind) ==
    IF k > Len(ChannelOrder) THEN {}
    ELSE IF ChannelOrder[k] \notin channels THEN ChannelsDone(k + 1, channels, kind)
    ELSE IF ChannelOrder[k] = kind THEN {}
    ELSE {ChannelOrder[k]} \cup ChannelsDone(k + 1, channels, kind)

\* the try block raises on this file: loadmat fails, or a selected channel does
FileRaises(channels, kind) == kind = "loadmat" \/ kind \in channels

\* the channels whose list the try block appended to before it ended
AppendedChannels(channels, kind) ==
    IF kind = "loadmat" THEN {} ELSE ChannelsDone(1, channels, kind)

\* one iteration of the file loop: the try block and its except clause
MineFile ==
    /\ mine.pc = "files"
    /\ mine.i <= Len(mine.files)
    /\ LET kind == mine.files[mine.i]
           appended == AppendedChannels(mine.channels, kind)
       IN  mine' = [mine EXCEPT
                      !.data = [c \in mine.channels |->
                                   IF c \in appended
                                   THEN Append(mine.data[c], mine.i)
                                   ELSE mine.data[c]],
                      !.corrupted_files =
                          IF FileRaises(mine.channels, kind)
                          THEN mine.corrupted_files \cup {mine.i}
                          ELSE mine.corrupted_files,
                      !.i = mine.i + 1]
    /\ UNCHANGED <<array, win_len, hop_len, return_df, m, ids, pc, table, call, out>>

\* the listing is exhausted: mine returns
MineReturn ==
    /\ mine.pc = "files"
    /\ mine.i > Len(mine.files)
    /\ mine' = [mine EXCEPT !.pc = "done"]
    /\ UNCHANGED <<array, win_len, hop_len, return_df, m, ids, pc, table, call, out>>

MineNext ==
    \/ MineFile
    \/ MineReturn

MineSpec == MineInit /\ [][MineNext]_vars

Next ==
    \/ SplitterLoop
    \/ SplitterCutoff
    \/ SplitterReturn
    \/ FeatureExtractor
    \/ CatchFeatures
    \/ ZScoreScaler

Spec == Init /\ [][Next]_vars

\* ================================================================ claims

\* C1: with win_len > 0 and hop_len > 0 splitter raises nothing and does not
\* loop on; the table it returns has max(0, floor((N - win_len)/hop_len) + 1)
\* rows, and row i (0-based) is array[i*hop_len : i*hop_len + win_len].
C1_WindowCountAndSpans ==
    (win_len > 0 /\ hop_len > 0) =>
        /\ pc \notin {"raised", "cutoff"}
        /\ pc # "loop" =>
              /\ Len(table.rows) = Max(0, FloorDiv(N - win_len, hop_len) + 1)
              /\ \A i \in 0..(Len(table.rows) - 1) :
                    table.rows[i + 1] =
                        [j \in 1..win_len |-> array[i * hop_len + j]]

\* overlapping windows, more than one of them
C1_Witness ==
    /\ pc = "returned"
    /\ win_len > 1 /\ hop_len > 0 /\ hop_len < win_len
    /\ Len(table.rows) >= 2

\* C2: with hop_len <= 0 or win_len <= 0 splitter returns no table and does
\* not loop on without raising.
C2_InvalidParameterRejected ==
    (hop_len <= 0 \/ win_len <= 0) => pc \notin {"returned", "cutoff"}

\* the table feature_extractor was given is a window table: a DataFrame with
\* at least one row and one column
FeWindowTable ==
    /\ call.op = "feature_extractor"
    /\ table.kind = "df"
    /\ Len(table.rows) >= 1
    /\ table.ncols >= 1

\* C3: for a window table with R >= 1 rows and a features dict of scalar
\* functions none of which raises, feature_extractor returns R rows in input
\* order and one column per feature, named by the keys in dict order; cell
\* (r, k) is function k applied to row r with that spec's args.
C3_FeatureTableShape ==
    (/\ FeWindowTable
     /\ \A k \in 1..Len(call.features) : call.features[k].func \notin VectorFuncs
     /\ FailingRows(table, call.features) = {}) =>
        /\ out.status = "returned"
        /\ out.value.kind = "df"
        /\ Len(out.value.rows) = Len(table.rows)
        /\ out.value.ncols = Len(call.features)
        /\ out.value.columns = Keys(call.features)
        /\ \A r \in 1..Len(table.rows) :
              /\ Len(out.value.rows[r]) = Len(call.features)
              /\ \A k \in 1..Len(call.features) :
                    out.value.rows[r][k] =
                        [kind |-> "scalar", func |-> call.features[k].func,
                         args |-> call.features[k].args, row |-> table.rows[r]]

\* two scalar features on a table of two or more rows
C3_Witness ==
    /\ FeWindowTable
    /\ Len(table.rows) >= 2
    /\ Len(call.features) = 2
    /\ \A k \in 1..2 : call.features[k].func \notin VectorFuncs
    /\ out.status = "returned"

\* C4: when a feature function raises on some row of a window table,
\* feature_extractor raises that error and returns no table.
C4_FailFast ==
    (FeWindowTable /\ FailingRows(table, call.features) # {}) =>
        /\ out.status = "raised"
        /\ out.err = "ZeroDivisionError"
        /\ out.value = NoTable

\* the function raises on a later row only: the rows before it were processed
C4_Witness ==
    /\ FeWindowTable
    /\ FailingRows(table, call.features) # {}
    /\ 1 \notin FailingRows(table, call.features)
    /\ out.status = "raised"

\* the column names the claim expects of feature_extractor: a scalar feature's
\* key, a vector feature's element names in its place
RECURSIVE ExpandedColumns(_)
ExpandedColumns(features) ==
    IF features = <<>> THEN <<>>
    ELSE (IF Head(features).func \in VectorFuncs
          THEN PluginNames(MinPluginLen)
          ELSE <<Head(features).key>>) \o ExpandedColumns(Tail(features))

UniformLens == \A r \in 1..Len(call.lens) : call.lens[r] = call.lens[1]

C6_DifferentLengthsRejected ==
    (/\ call.op = "catch_features"
     /\ table.kind = "df"
     /\ table.ncols >= 1
     /\ ~UniformLens) => out.status = "raised"

\* C7: given the empty table splitter returns when win_len > N,
\* feature_extractor and catch_features return a table without rows.
C7_EmptyTableTolerated ==
    (/\ call.op \in {"feature_extractor", "catch_features"}
     /\ table.kind = "df"
     /\ hop_len > 0
     /\ win_len > N
     /\ table.rows = <<>>) =>
        /\ out.status = "returned"
        /\ out.value.rows = <<>>

\* C8: z_score_scaler with axis outside {0, 1} raises ValueError whatever the
\* input's type; with axis in {0, 1} an input that is neither a DataFrame nor
\* an ndarray raises TypeError.  Nothing is returned in either case.
C8_AxisThenType ==
    call.op = "z_score_scaler" =>
        /\ call.axis \notin {0, 1} => out = Raised("ValueError")
        /\ (call.axis \in {0, 1} /\ call.signals \notin {"df", "nd"}) =>
              out = Raised("TypeError")

\* an unsupported input together with an unsupported axis
C8_Witness ==
    /\ call.op = "z_score_scaler"
    /\ call.signals = "list"
    /\ call.axis = 2
    /\ out.status = "raised"

\* C9 as claimed: whatever the parameters, a returned table has the input's
\* representation (checked on the tables of splitter calls with win_len > 0
\* and hop_len > 0).
C9_SameRepresentation ==
    (/\ call.op = "z_score_scaler"
     /\ win_len > 0 /\ hop_len > 0
     /\ out.status = "returned") =>
        out.value.kind = call.signals

\* C9 as amended: an ndarray input yields an ndarray; a DataFrame input
\* yields a DataFrame when return_df is true and an ndarray when it is false.
C9_RepresentationByReturnDf ==
    (call.op = "z_score_scaler" /\ call.axis \in {0, 1}) =>
        /\ (call.signals = "df" /\ call.return_df) =>
              (out.status = "returned" /\ out.value.kind = "df")
        /\ (call.signals = "df" /\ ~call.return_df) =>
              (out.status = "returned" /\ out.value.kind = "nd")
        /\ (call.signals = "nd" /\ out.status = "returned") =>
              out.value.kind = "nd"

\* a DataFrame with rows scaled under return_df = False
C9_Witness ==
    /\ call.op = "z_score_scaler"
    /\ call.signals = "df"
    /\ ~call.return_df
    /\ out.status = "returned"
    /\ Len(out.value.rows) >= 2
    /\ out.value.kind = "nd"

\* C10: no cell of a table z_score_scaler returns was divided by an
\* undefined (NaN) or zero standard deviation.
C10_DivisorDefined ==
    (call.op = "z_score_scaler" /\ out.status = "returned") =>
        \A r \in 1..Len(out.value.rows) :
            \A c \in 1..Len(out.value.rows[r]) :
                /\ out.value.rows[r][c].div \in {"eps", "std"}
                /\ out.value.rows[r][c].div = "std" => out.value.rows[r][c].ssd > 0

\* the scaled cell equals the integer v: (x - mean) / std = v with
\* std^2 = ssd / (n * (n - ddof)) and x - mean = dev / n
CellEquals(cell, v) ==
    /\ cell.div = "std"
    /\ cell.dev * cell.dev * (cell.n - cell.ddof) = v * v * cell.n * cell.ssd
    /\ (cell.dev > 0) = (v > 0)
    /\ (cell.dev < 0) = (v < 0)

\* C11: column-wise (axis=0) scaling of the table [[1, 2], [3, 4]] returns
\* [[-1, -1], [1, 1]], for a DataFrame input as for an ndarray input.
C11_ScenarioC ==
    (/\ call.op = "z_score_scaler"
     /\ call.signals \in {"df", "nd"}
     /\ call.axis = 0
     /\ table.rows = <<<<1, 2>>, <<3, 4>>>>) =>
        /\ out.status = "returned"
        /\ \A c \in 1..2 :
              /\ CellEquals(out.value.rows[1][c], -1)
              /\ CellEquals(out.value.rows[2][c], 1)

\* the rows on which feature_extractor evaluated crest_factor
CrestRows ==
    IF call.op = "feature_extractor" /\ out.status = "returned"
    THEN {out.value.rows[r][k].row :
            r \in 1..Len(out.value.rows),
            k \in {j \in 1..Len(call.features) :
                      call.features[j].func = "crest_factor"}}
    ELSE {}

\* C12 as claimed: crest_factor is > 1 on every row of non-zero variance.
C12_CrestAboveOneIfVariance ==
    \A x \in CrestRows :
        ScaledSsd(x) > 0 => CrestAboveOne(crest_factor(x))

\* C12 as amended: crest_factor is >= 1 on every row that is not all zero,
\* and > 1 exactly when two samples differ in absolute value.
C12_CrestAboveOneIffAbsDiffer ==
    \A x \in CrestRows :
        (\E i \in 1..Len(x) : x[i] # 0) =>
            /\ CrestAtLeastOne(crest_factor(x))
            /\ CrestAboveOne(crest_factor(x)) <=>
                  (\E i, j \in 1..Len(x) : AbsVal(x[i]) # AbsVal(x[j]))

\* crest_factor evaluated on a row whose samples differ only in sign
C12_Witness ==
    \E x \in CrestRows :
        /\ ScaledSsd(x) > 0
        /\ \A i \in 1..Len(x) : AbsVal(x[i]) = 1

\* C13: with hop_len >= 1 the loop of splitter exits, whatever N and win_len
\* (positive, zero or negative): the offsets of successive iterations strictly
\* increase, there are at most max(0, N - win_len + 1) iterations, and the
\* loop is left with m + win_len > N.  A loop that does not exit has
\* hop_len <= 0 and win_len <= N, and such a loop is never left.
C13_LoopTerminates ==
    /\ hop_len >= 1 =>
          /\ pc # "cutoff"
          /\ \A i \in 1..(Len(ids) - 1) : ids[i][1] < ids[i + 1][1]
          /\ ids # <<>> => ids[Len(ids)][1] < m
          /\ Len(ids) <= Max(0, N - win_len + 1)
    /\ pc \in {"returned", "raised", "called"} => m + win_len > N
    /\ pc = "cutoff" => (hop_len <= 0 /\ win_len <= N)
    /\ (hop_len <= 0 /\ win_len <= N) => pc \in {"loop", "cutoff"}

\* a loop with a negative win_len that ran more than once and exited
C13_Witness ==
    /\ pc = "returned"
    /\ hop_len >= 1
    /\ win_len < 0
    /\ Len(ids) >= 2

\* how often file f occurs in a channel's list
Occurrences(list, f) == Cardinality({j \in 1..Len(list) : list[j] = f})

\* C14: after mine returns, a file recorded in corrupted_files has no table
\* in any channel's list, a file not recorded has exactly one table in every
\* selected channel's list, and all the lists are equal (same length, same
\* file order).
C14_AllOrNothing ==
    mine.pc = "done" =>
        /\ \A f \in 1..Len(mine.files) : \A c \in mine.channels :
              Occurrences(mine.data[c], f) =
                  (IF f \in mine.corrupted_files THEN 0 ELSE 1)
        /\ \A c, d \in mine.channels : mine.data[c] = mine.data[d]

====
